---- MODULE Spec2Model ----
(***************************************************************************)
(* Model of src/local_ai_hackathon/yodas_cleansing.py: the WADA SNR table  *)
(* lookup, the three filtering stages (SNR, quality score, transcription), *)
(* their fan-out over worker processes, the per-batch output files and the *)
(* batch loop with its final merge of the per-batch manifests.             *)
(*                                                                         *)
(* Floating point values are exact rationals [nan, num, den] with den > 0; *)
(* the curve values of g_vals and the statistic v3 are scaled by 10^8 so   *)
(* that they are integers.  Sequences are 1-based: Python index k is index *)
(* k+1 here, and the Python value None of wav_snr_idx is 0.                *)
(***************************************************************************)
EXTENDS Integers, Sequences, FiniteSets, TLC

\* ------------------------------------------------------------------ bounds
\* Number of records of the 'train' split in whole-run behaviours.
DatasetLen == 3
\* Largest --start of a run.
MaxStart == 1
\* Largest --batch_size of a run.
MaxBatchSize == 3
\* Largest number of CPUs (mp.cpu_count) and of GPUs (torch.cuda.device_count).
MaxWorkers == 2
\* Longest collection handed to a single stage or batch in isolation.
MaxLen == 3
\* The statistic v3 is drawn from each curve value and its neighbours
\* up to this distance (in units of 10^-8).
V3Delta == 1

\* ------------------------------------------------------------ float values
\* argparse default=None of --end
None == -1
NaN == [nan |-> TRUE, num |-> 0, den |-> 1]

Float(n) == [nan |-> FALSE, num |-> n, den |-> 1]

isnan(x) == x.nan

\* IEEE comparison: a > b is false when either side is not a number.
FloatGt(a, b) == ~a.nan /\ ~b.nan /\ a.num * b.den > b.num * a.den

FloatLt(a, b) == FloatGt(b, a)

Max(S) == CHOOSE x \in S : \A y \in S : y <= x

Min(S) == CHOOSE x \in S : \A y \in S : x <= y

\* --------------------------------------------------------------- wada_snr
\* db_vals = np.arange(-20, 101)
db_vals == [i \in 1..121 |-> i - 21]

\* g_vals, each value times 10^8
g_vals ==
    << 
       40974774, 40986926, 40998566, 40969089, 40986186, 40999006,
       41027138, 41052627, 41101024, 41143264, 41231718, 41337272,
       41526426, 41781920, 42077252, 42452799, 42918886, 43510373,
       44234195, 45161485, 46221153, 47491647, 48883809, 50509236,
       52353709, 54372088, 56532427, 58847532, 61346212, 63954496,
       66750818, 69583724, 72454762, 75414799, 78323148, 81240985,
       84219775, 87166406, 90030504, 92880418, 95655449, 98353490,
       101047155, 103620950, 106136425, 108579312, 110948190, 113277995,
       115472826, 117627308, 119703503, 121671694, 123535898, 125364313,
       127103891, 128718029, 130302865, 131839527, 133294817, 134700935,
       136057270, 137345513, 138577122, 139733504, 140856397, 141959619,
       142983624, 143958467, 144902176, 145804831, 146669568, 147486938,
       148269965, 149034339, 149748214, 150435106, 151076426, 151698915,
       152290970, 152857800, 153389835, 153912110, 154390650, 154858517,
       155310776, 155744391, 156164927, 156566348, 156938671, 157307767,
       157654764, 157980083, 158304129, 158602496, 158880681, 159162477,
       159419690, 159693155, 159944600, 160185011, 160408668, 160627134,
       160826199, 161004547, 161192472, 161369656, 161534074, 161688905,
       161838916, 161985374, 162135878, 162268119, 162390423, 162513143,
       162632463, 162740270, 162842767, 162945532, 163033070, 163128026,
       163204102 >>

\* g_vals[i] < v3
curve_below(i, v3) == ~v3.nan /\ g_vals[i] * v3.den < v3.num

\* The smallest index whose curve value is less than v3, instead of the largest.
wav_snr_idx_first(v3) ==
    IF \E i \in 1..Len(g_vals) : curve_below(i, v3)
    THEN CHOOSE i \in 1..Len(g_vals) :
             curve_below(i, v3) /\ \A j \in 1..(i - 1) : ~curve_below(j, v3)
    ELSE 0

\* np.where(g_vals < v3)[0].max() if any(g_vals < v3), else None (here 0):
\* the index whose curve value is less than v3 with no such index after it.
wav_snr_idx(v3) ==
    IF \E i \in 1..Len(g_vals) : curve_below(i, v3)
    THEN CHOOSE i \in 1..Len(g_vals) :
             curve_below(i, v3) /\ \A j \in (i + 1)..Len(g_vals) : ~curve_below(j, v3)
    ELSE 0

\* The table interpolation of wada_snr: the dB value for the statistic v3.
table_lookup(v3) ==
    LET idx == wav_snr_idx(v3)
    IN  IF idx = 0 THEN Float(db_vals[1])
        ELSE IF idx = Len(db_vals) THEN Float(db_vals[Len(db_vals)])
        ELSE LET den == g_vals[idx + 1] - g_vals[idx]
             IN  [nan |-> FALSE,
                  num |-> db_vals[idx] * den
                          + (v3.num - g_vals[idx]) * (db_vals[idx + 1] - db_vals[idx]),
                  den |-> den]

\* -------------------------------------------------------------------- state
VARIABLES
    args,              \* the parsed command line: start, end, batch_size, skip_whisper
    num_cpus,          \* mp.cpu_count()
    num_gpus,          \* torch.cuda.device_count()
    dataset,           \* the records of the 'train' split of the dataset source
    pc,                \* where the driving process is
    batch_start,       \* the loop variable of the batch loop
    batch_end,
    batch_ds,          \* the records loaded for the current batch
    tasks,             \* every worker task submitted so far, by <<batch, stage, worker>>
    wada_snr_results,
    mos_results,
    all_results,
    data_dir,          \* the files of data_dir, by name
    wav_dir,           \* the files of data_dir/raw, by name
    handed,            \* history: the <<start, end>> handed to process_results
    completed,         \* history: the batches whose process_results returned
    data_partitions,   \* the partitions of a stage run in isolation
    echo_results,      \* the output of a stage whose worker returns its partition
    lookup_v3,                \* the statistic given to the table lookup
    lookup_wav_snr            \* the dB value the table lookup gives

vars == <<args, num_cpus, num_gpus, dataset, pc, batch_start, batch_end, batch_ds,
          tasks, wada_snr_results, mos_results, all_results, data_dir, wav_dir,
          handed, completed, data_partitions, echo_results, lookup_v3, lookup_wav_snr>>

\* ------------------------------------------------------- thresholds (args)
\* --snr_threshold, default 100.0
snr_threshold == 100
\* --score_threshold, default 3.0
score_threshold == 3

\* ----------------------------------------------------------- audio buffers
\* A sample buffer is described by what wada_snr reads of it: whether it is
\* a numeric array at all (valid), its number of samples (size), its peak
\* magnitude (0 for a silent buffer) and its statistic
\* v3 = log(E|z|) - E[log|z|] of the peak-normalised samples, times 10^8.
\* Integer-to-float scaling and the stereo mean leave these descriptors of the
\* resulting mono buffer as they are given.
preprocess_audio(data) == data

wada_snr(wav) ==
    IF wav.size = 0 THEN NaN
    ELSE LET \* wav / abs(wav).max() is 0/0 for a silent buffer: every
             \* statistic of it is nan, and so is the energy sum(wav**2)
             v3 == IF wav.peak = 0 THEN NaN ELSE Float(wav.v3)
             wav_snr == table_lookup(v3)
             dEng == IF wav.peak = 0 THEN NaN ELSE Float(1)
         IN  \* 10 * log10(dSigEng / dNoiseEng) = 10 * log10(dFactor) = wav_snr
             IF isnan(dEng) THEN NaN ELSE wav_snr

\* The condition of the `continue` in analyze_wada_snr.
snr_rejected_no_nan_test(snr) == FloatGt(Float(snr_threshold), snr)

snr_rejected(snr) == FloatGt(Float(snr_threshold), snr) \/ isnan(snr)

\* A worker's return: raised, or the list it returns.
Raised == [raised |-> TRUE, results |-> <<>>]

Returned(results) == [raised |-> FALSE, results |-> results]

RECURSIVE wada_snr_loop(_, _, _)
wada_snr_loop(data_partition, i, results) ==
    IF i > Len(data_partition) THEN Returned(results)
    ELSE LET item == data_partition[i]
         IN  IF ~item.audio.array.valid THEN Raised
             ELSE LET snr == wada_snr(preprocess_audio(item.audio.array))
                  IN  IF snr_rejected(snr)
                      THEN wada_snr_loop(data_partition, i + 1, results)
                      ELSE wada_snr_loop(data_partition, i + 1,
                                         Append(results, <<item, snr>>))

analyze_wada_snr(data_partition) == wada_snr_loop(data_partition, 1, <<>>)

\* ------------------------------------------------------------ analyze_mos
\* The external quality model: what predictor(...).cpu().item() gives for
\* the item, a score or an exception.
predictor(item) == item.utmos

\* The try block of analyze_mos raises when the audio cannot be
\* preprocessed or when the predictor fails.
mos_raises(item) == ~item.audio.array.valid \/ predictor(item).err

mos_accepted_gt(score) == score > score_threshold

mos_accepted(score) == score >= score_threshold

\* A loop whose try encloses the whole for statement: the first exception
\* ends the partition.
RECURSIVE mos_loop_try_outside(_, _, _)
mos_loop_try_outside(data_partition, i, results) ==
    IF i > Len(data_partition) THEN results
    ELSE LET item == data_partition[i][1]
             snr == data_partition[i][2]
         IN  IF isnan(snr) THEN mos_loop_try_outside(data_partition, i + 1, results)
             ELSE IF mos_raises(item) THEN results
             ELSE IF mos_accepted(predictor(item).val)
                  THEN mos_loop_try_outside(data_partition, i + 1,
                           Append(results, <<item, snr, predictor(item).val>>))
                  ELSE mos_loop_try_outside(data_partition, i + 1, results)

analyze_mos_try_outside(data_partition, gpu_id) ==
    Returned(mos_loop_try_outside(data_partition, 1, <<>>))

RECURSIVE mos_loop(_, _, _)
mos_loop(data_partition, i, results) ==
    IF i > Len(data_partition) THEN results
    ELSE LET item == data_partition[i][1]
             snr == data_partition[i][2]
         IN  IF isnan(snr) THEN mos_loop(data_partition, i + 1, results)
             \* except Exception: logger.exception(e), then the next item
             ELSE IF mos_raises(item) THEN mos_loop(data_partition, i + 1, results)
             ELSE IF mos_accepted(predictor(item).val)
                  THEN mos_loop(data_partition, i + 1,
                                Append(results, <<item, snr, predictor(item).val>>))
                  ELSE mos_loop(data_partition, i + 1, results)

analyze_mos(data_partition, gpu_id) == Returned(mos_loop(data_partition, 1, <<>>))

\* -------------------------------------------------------- analyze_whisper
\* The external transcription model: what whisper_model.transcribe gives
\* for the item, a text or an exception.
transcribe(item) ==
    [err |-> item.whisper.err,
     text |-> IF item.whisper.same THEN item.text ELSE <<"asr", item.id>>]

\* The ResultRecord built for one accepted record.
ResultRecord(item, snr, score, transcription) ==
    [id |-> item.id,
     uuid |-> item.utt_id,
     snr |-> snr,
     score |-> score,
     transcription |-> transcription,
     source_transcription |-> item.text,
     path |-> item.audio.path]

RECURSIVE whisper_loop(_, _, _, _)
whisper_loop(data_partition, skip_whisper, i, results) ==
    IF i > Len(data_partition) THEN Returned(results)
    ELSE LET item == data_partition[i][1]
             snr == data_partition[i][2]
             score == data_partition[i][3]
         IN  IF ~skip_whisper
             THEN IF ~item.audio.array.valid \/ transcribe(item).err THEN Raised
                  ELSE whisper_loop(data_partition, skip_whisper, i + 1,
                           Append(results,
                                  ResultRecord(item, snr, score, transcribe(item).text)))
             ELSE whisper_loop(data_partition, skip_whisper, i + 1,
                      Append(results, ResultRecord(item, snr, score, item.text)))

\* The transcription always comes from the model, --skip_whisper or not.
analyze_whisper_always(data_partition, gpu_id) ==
    whisper_loop(data_partition, FALSE, 1, <<>>)

analyze_whisper(data_partition, gpu_id) ==
    whisper_loop(data_partition, args.skip_whisper, 1, <<>>)

\* ------------------------------------------------------------ stage runner
RECURSIVE cumsum(_, _)
cumsum(section_sizes, k) ==
    IF k = 0 THEN 0 ELSE cumsum(section_sizes, k - 1) + section_sizes[k]

\* Every section gets Ntotal // Nsections items: the remainder is lost.
array_split_no_extras(ary, Nsections) ==
    LET Neach_section == Len(ary) \div Nsections
    IN  [i \in 1..Nsections |->
            SubSeq(ary, (i - 1) * Neach_section + 1, i * Neach_section)]

\* np.array_split(ary, Nsections) along axis 0
array_split(ary, Nsections) ==
    LET Ntotal == Len(ary)
        Neach_section == Ntotal \div Nsections
        extras == Ntotal % Nsections
        \* [0] + extras * [Neach_section+1] + (Nsections-extras) * [Neach_section]
        section_sizes == [k \in 1..(Nsections + 1) |->
                            IF k = 1 THEN 0
                            ELSE IF k - 1 <= extras THEN Neach_section + 1
                            ELSE Neach_section]
        div_points == [k \in 1..(Nsections + 1) |-> cumsum(section_sizes, k)]
    IN  [i \in 1..Nsections |-> SubSeq(ary, div_points[i] + 1, div_points[i + 1])]

\* [item for sublist in results for item in sublist]
RECURSIVE flatten_upto(_, _)
flatten_upto(lists, k) ==
    IF k = 0 THEN <<>> ELSE flatten_upto(lists, k - 1) \o lists[k]

Flatten(lists) == flatten_upto(lists, Len(lists))

\* list(executor.map(worker, partitions)) followed by the flattening, for
\* the returns of the workers in partition order: a raise of any worker is
\* raised to the caller.
FanIn(returns) ==
    IF \E w \in DOMAIN returns : returns[w].raised THEN Raised
    ELSE Returned(Flatten([w \in DOMAIN returns |-> returns[w].results]))

\* One whole stage as a function of its input.
SnrStage(ds) ==
    LET partitions == array_split(ds, num_cpus)
    IN  FanIn([w \in 1..num_cpus |-> analyze_wada_snr(partitions[w])])

MosStage(results) ==
    LET partitions == array_split(results, num_gpus)
    IN  FanIn([w \in 1..num_gpus |-> analyze_mos(partitions[w], w - 1)])

WhisperStage(results) ==
    LET partitions == array_split(results, num_gpus)
    IN  FanIn([w \in 1..num_gpus |-> analyze_whisper(partitions[w], w - 1)])

\* ------------------------------------------------------------------- files
\* File names of data_dir: esd_{start}-{end}.list, results_{start}-{end}.json
\* and esd.list.
EsdName(start, end) == <<"esd_", start, end, ".list">>

ResultsName(start, end) == <<"results_", start, end, ".json">>

MergedName == <<"esd", 0, 0, ".list">>

\* f"{uuid}.wav|yodasja|JP|{result['transcription']}\n"
ManifestLine(result) == <<result.uuid, ".wav", "yodasja", "JP", result.transcription>>

ManifestLines(results) == [i \in 1..Len(results) |-> ManifestLine(results[i])]

\* The file d[name] created or replaced.
Put(d, name, content) ==
    [n \in DOMAIN d \cup {name} |-> IF n = name THEN content ELSE d[n]]

\* glob.glob(os.path.join(data_dir, '*.list')) would also match esd.list.
Glob_any_list(d) == {n \in DOMAIN d : n[4] = ".list"}

\* glob.glob(os.path.join(data_dir, 'esd_*.list'))
Glob(d) == {n \in DOMAIN d : n[1] = "esd_" /\ n[4] = ".list"}

\* The orders in which glob may list the files.
Orders(S) == {o \in [1..Cardinality(S) -> S] : \A n \in S : \E i \in DOMAIN o : o[i] = n}

\* outfile.write(infile.read()) for each listed file in turn.
MergeContent(d, order) == Flatten([i \in DOMAIN order |-> d[order[i]]])

\* ------------------------------------------------------------------ records
\* Statistic of a buffer whose table lookup is interpolated between 19 and 20 dB.
V3Noisy == g_vals[40] + 1
\* Statistic above the whole curve: the lookup is clamped to 100 dB.
V3Clean == g_vals[Len(g_vals)] + 1

ArrayEmpty == [valid |-> TRUE, size |-> 0, peak |-> 0, v3 |-> 0]

ArraySilent == [valid |-> TRUE, size |-> 1, peak |-> 0, v3 |-> 0]

ArrayNoisy == [valid |-> TRUE, size |-> 1, peak |-> 1, v3 |-> V3Noisy]

ArrayClean == [valid |-> TRUE, size |-> 1, peak |-> 1, v3 |-> V3Clean]

ArrayMalformed == [valid |-> FALSE, size |-> 1, peak |-> 1, v3 |-> V3Clean]

ScoreError == [err |-> TRUE, val |-> 0]

Score(s) == [err |-> FALSE, val |-> s]

WhisperError == [err |-> TRUE, same |-> FALSE]

Whisper(same) == [err |-> FALSE, same |-> same]

Kind(array, utmos, whisper) == [array |-> array, utmos |-> utmos, whisper |-> whisper]

GoodKind == Kind(ArrayClean, Score(score_threshold), Whisper(FALSE))

\* What the dataset source and the two external models can give for one
\* record.  The outcome of a model that is never asked (the score of a record
\* the SNR stage rejects, the transcription of a record the quality stage
\* rejects) is fixed.
Kinds ==
    {Kind(a, Score(score_threshold), Whisper(FALSE)) :
        a \in {ArrayEmpty, ArraySilent, ArrayNoisy, ArrayMalformed}}
    \cup {Kind(ArrayClean, s, Whisper(FALSE)) :
        s \in {ScoreError, Score(score_threshold - 1)}}
    \cup {Kind(ArrayClean, Score(score_threshold), w) :
        w \in {WhisperError, Whisper(TRUE), Whisper(FALSE)}}

\* The record of index i (0-based) of the dataset source.
Item(i, kind) ==
    [id |-> i,
     utt_id |-> <<"utt", i>>,
     text |-> <<"src", i>>,
     audio |-> [array |-> kind.array, path |-> <<"path", i>>],
     utmos |-> kind.utmos,
     whisper |-> kind.whisper]

\* The datasets of n records over a set of kinds.
Datasets(n, kinds) ==
    {[i \in 1..n |-> Item(i - 1, k[i])] : k \in [1..n -> kinds]}

\* The datasets of whole-run behaviours: at most one record is not a good one.
RunDatasets ==
    {[i \in 1..DatasetLen |-> Item(i - 1, IF i = j THEN k ELSE GoodKind)] :
        j \in 1..DatasetLen,
        k \in {GoodKind, Kind(ArrayMalformed, Score(score_threshold), Whisper(FALSE)),
               Kind(ArrayClean, Score(score_threshold), WhisperError)}}

\* load_dataset(..., split=f'train[{a}:{b}]'): the records a..b-1.
Slice(ds, a, b) == SubSeq(ds, Min({a, Len(ds)}) + 1, Min({b, Len(ds)}))

\* len(ds0)
LenDs0 ==
    IF args.end = None THEN Len(dataset)
    ELSE Len(Slice(dataset, args.start, args.end))

\* A line of a manifest left in data_dir by an earlier run.
StaleLine == <<<<"utt", 99>>, ".wav", "yodasja", "JP", <<"src", 99>>>>

EmptyDir == <<>>

StaleDir ==
    [n \in {EsdName(0, 1), EsdName(98, 99), MergedName} |-> <<StaleLine>>]

\* The hosts: cpu_count and device_count, a host having no more GPUs than CPUs.
Hosts == {h \in (1..MaxWorkers) \X (1..MaxWorkers) : h[2] <= h[1]}

\* ------------------------------------------------------------ stage fan-out
Stages == {"snr", "mos", "whisper"}

\* The number of the current batch (1 for the first).
Batch == Len(handed)

\* What the worker function of a stage returns for its partition.
WorkerReturn(stage, data_partition, gpu_id) ==
    IF stage = "snr" THEN analyze_wada_snr(data_partition)
    ELSE IF stage = "mos" THEN analyze_mos(data_partition, gpu_id)
    ELSE analyze_whisper(data_partition, gpu_id)

\* executor.map(worker, partitions) of a stage of batch k: one pending task
\* for each partition, added to the tasks there are.
Submit(old, k, stage, partitions) ==
    LET new == {<<k, stage, w>> : w \in DOMAIN partitions}
    IN  [t \in DOMAIN old \cup new |->
            IF t \in new
            THEN [status |-> "pending", input |-> partitions[t[3]], output |-> Returned(<<>>)]
            ELSE old[t]]

\* The tasks of the stage the driving process waits for.
StageTasks == {t \in DOMAIN tasks : t[1] = Batch /\ t[2] = pc}

\* The returns of the current stage's workers, in partition order.
StageReturns ==
    [w \in 1..Cardinality(StageTasks) |-> tasks[<<Batch, pc, w>>].output]

\* A worker process takes a pending task.
WorkerStart(t) ==
    /\ pc \in Stages
    /\ tasks[t].status = "pending"
    /\ tasks' = [tasks EXCEPT ![t].status = "running"]
    /\ UNCHANGED <<args, num_cpus, num_gpus, dataset, pc, batch_start, batch_end,
                   batch_ds, wada_snr_results, mos_results, all_results, data_dir,
                   wav_dir, handed, completed, data_partitions, echo_results, lookup_v3, lookup_wav_snr>>

\* A worker process returns from (or raises in) its worker function.
WorkerFinish(t) ==
    /\ pc \in Stages
    /\ tasks[t].status = "running"
    /\ LET r == WorkerReturn(t[2], tasks[t].input, t[3] - 1)
       IN  tasks' = [tasks EXCEPT ![t].status = IF r.raised THEN "failed" ELSE "done",
                                  ![t].output = r]
    /\ UNCHANGED <<args, num_cpus, num_gpus, dataset, pc, batch_start, batch_end,
                   batch_ds, wada_snr_results, mos_results, all_results, data_dir,
                   wav_dir, handed, completed, data_partitions, echo_results, lookup_v3, lookup_wav_snr>>

\* The driving process goes on as soon as one worker has returned.
FanInReady_first_done == \E t \in StageTasks : tasks[t].status = "done"

\* list(executor.map(...)) has every result: every worker of the stage has returned.
FanInReady == \A t \in StageTasks : tasks[t].status = "done"

\* process_results: the SNR stage is complete, the quality stage is submitted.
SnrFanIn ==
    /\ pc = "snr"
    /\ FanInReady
    /\ wada_snr_results' = FanIn(StageReturns).results
    /\ tasks' = Submit(tasks, Batch, "mos", array_split(wada_snr_results', num_gpus))
    /\ pc' = "mos"
    /\ UNCHANGED <<args, num_cpus, num_gpus, dataset, batch_start, batch_end, batch_ds,
                   mos_results, all_results, data_dir, wav_dir, handed, completed,
                   data_partitions, echo_results, lookup_v3, lookup_wav_snr>>

\* process_results: the quality stage is complete, the transcription stage is submitted.
MosFanIn ==
    /\ pc = "mos"
    /\ FanInReady
    /\ mos_results' = FanIn(StageReturns).results
    /\ tasks' = Submit(tasks, Batch, "whisper", array_split(mos_results', num_gpus))
    /\ pc' = "whisper"
    /\ UNCHANGED <<args, num_cpus, num_gpus, dataset, batch_start, batch_end, batch_ds,
                   wada_snr_results, all_results, data_dir, wav_dir, handed, completed,
                   data_partitions, echo_results, lookup_v3, lookup_wav_snr>>

\* process_results: the transcription stage is complete.
WhisperFanIn ==
    /\ pc = "whisper"
    /\ FanInReady
    /\ all_results' = FanIn(StageReturns).results
    /\ pc' = "write"
    /\ UNCHANGED <<args, num_cpus, num_gpus, dataset, batch_start, batch_end, batch_ds,
                   tasks, wada_snr_results, mos_results, data_dir, wav_dir, handed,
                   completed, data_partitions, echo_results, lookup_v3, lookup_wav_snr>>

\* The exception of a worker is swallowed and the loop goes on to the next batch.
StageAbort_next_batch ==
    /\ pc \in Stages
    /\ \E t \in StageTasks : tasks[t].status = "failed"
    /\ \A t \in StageTasks : tasks[t].status # "running"
    /\ pc' = "loop"
    /\ batch_start' = batch_start + args.batch_size
    /\ UNCHANGED <<args, num_cpus, num_gpus, dataset, batch_end, batch_ds, tasks,
                   wada_snr_results, mos_results, all_results, data_dir, wav_dir,
                   handed, completed, data_partitions, echo_results, lookup_v3, lookup_wav_snr>>

\* The result iterator reaches a worker that raised: the tasks still pending
\* are cancelled, the executor's shutdown waits for the running ones, and the
\* exception leaves process_results and the batch loop.
StageAbort ==
    /\ pc \in Stages
    /\ \E t \in StageTasks :
          /\ tasks[t].status = "failed"
          /\ \A u \in StageTasks : u[3] < t[3] => tasks[u].status \in {"done", "failed"}
    /\ \A t \in StageTasks : tasks[t].status # "running"
    /\ pc' = "aborted"
    /\ UNCHANGED <<args, num_cpus, num_gpus, dataset, batch_start, batch_end, batch_ds,
                   tasks, wada_snr_results, mos_results, all_results, data_dir, wav_dir,
                   handed, completed, data_partitions, echo_results, lookup_v3, lookup_wav_snr>>

\* ------------------------------------------------------------- batch outputs
\* shutil.copy(src_path, dst_path) for each of the results, in turn.
CopyAll(wd, results) ==
    LET names == {<<results[i].uuid, ".wav">> : i \in DOMAIN results}
        last(n) == Max({i \in DOMAIN results : <<results[i].uuid, ".wav">> = n})
    IN  [n \in DOMAIN wd \cup names |->
            IF n \in names THEN results[last(n)].path ELSE wd[n]]

\* process_results: the manifest of the batch is written and the audio copied.
WriteManifest ==
    /\ pc = "write"
    /\ data_dir' = Put(data_dir, EsdName(batch_start, batch_end), ManifestLines(all_results))
    /\ wav_dir' = CopyAll(wav_dir, all_results)
    /\ pc' = "json"
    /\ UNCHANGED <<args, num_cpus, num_gpus, dataset, batch_start, batch_end, batch_ds,
                   tasks, wada_snr_results, mos_results, all_results, handed, completed,
                   data_partitions, echo_results, lookup_v3, lookup_wav_snr>>

\* os.makedirs or open raises (j = 0, nothing is written), or the copy of the
\* j-th audio file raises after its line was written: the manifest is closed
\* with j lines and the exception leaves process_results and the batch loop.
WriteManifestFail ==
    /\ pc = "write"
    /\ \E j \in 0..Len(all_results) :
          /\ data_dir' = IF j = 0 THEN data_dir
                         ELSE Put(data_dir, EsdName(batch_start, batch_end),
                                  ManifestLines(SubSeq(all_results, 1, j)))
          /\ wav_dir' = CopyAll(wav_dir, SubSeq(all_results, 1, j - 1))
    /\ pc' = "aborted"
    /\ UNCHANGED <<args, num_cpus, num_gpus, dataset, batch_start, batch_end, batch_ds,
                   tasks, wada_snr_results, mos_results, all_results, handed, completed,
                   data_partitions, echo_results, lookup_v3, lookup_wav_snr>>

\* process_results: the JSON file of the batch is written; process_results
\* returns and the loop takes its next value.
WriteJson ==
    /\ pc = "json"
    /\ data_dir' = Put(data_dir, ResultsName(batch_start, batch_end), all_results)
    /\ completed' = completed \cup {Batch}
    /\ batch_start' = batch_start + args.batch_size
    /\ pc' = "loop"
    /\ UNCHANGED <<args, num_cpus, num_gpus, dataset, batch_end, batch_ds, tasks,
                   wada_snr_results, mos_results, all_results, wav_dir, handed,
                   data_partitions, echo_results, lookup_v3, lookup_wav_snr>>

\* json.dump raises after the file was opened for writing: the file is left
\* without the records.
WriteJsonFail ==
    /\ pc = "json"
    /\ data_dir' = Put(data_dir, ResultsName(batch_start, batch_end), <<>>)
    /\ pc' = "aborted"
    /\ UNCHANGED <<args, num_cpus, num_gpus, dataset, batch_start, batch_end, batch_ds,
                   tasks, wada_snr_results, mos_results, all_results, wav_dir, handed,
                   completed, data_partitions, echo_results, lookup_v3, lookup_wav_snr>>

\* ---------------------------------------------------------------- batch loop
\* An iteration of `for batch_start in range(args.start, len(ds0), batch_size)`:
\* the batch is loaded and process_results submits its SNR stage.
StartBatch ==
    /\ pc = "loop"
    /\ batch_start < LenDs0
    /\ batch_end' = Min({batch_start + args.batch_size - 1, LenDs0})
    /\ batch_ds' = Slice(dataset, batch_start, batch_end')
    /\ handed' = Append(handed, <<batch_start, batch_end'>>)
    /\ tasks' = Submit(tasks, Len(handed'), "snr", array_split(batch_ds', num_cpus))
    /\ pc' = "snr"
    /\ UNCHANGED <<args, num_cpus, num_gpus, dataset, batch_start, wada_snr_results,
                   mos_results, all_results, data_dir, wav_dir, completed,
                   data_partitions, echo_results, lookup_v3, lookup_wav_snr>>

\* The range is exhausted.
EndLoop ==
    /\ pc = "loop"
    /\ batch_start >= LenDs0
    /\ pc' = "merge"
    /\ UNCHANGED <<args, num_cpus, num_gpus, dataset, batch_start, batch_end, batch_ds,
                   tasks, wada_snr_results, mos_results, all_results, data_dir, wav_dir,
                   handed, completed, data_partitions, echo_results, lookup_v3, lookup_wav_snr>>

\* The manifests that glob lists are concatenated into esd.list.
Merge ==
    /\ pc = "merge"
    /\ \E order \in Orders(Glob(data_dir)) :
          data_dir' = Put(data_dir, MergedName, MergeContent(data_dir, order))
    /\ pc' = "done"
    /\ UNCHANGED <<args, num_cpus, num_gpus, dataset, batch_start, batch_end, batch_ds,
                   tasks, wada_snr_results, mos_results, all_results, wav_dir, handed,
                   completed, data_partitions, echo_results, lookup_v3, lookup_wav_snr>>

\* The command lines of whole-run behaviours.
RunArgs ==
    {[start |-> s, end |-> e, batch_size |-> b, skip_whisper |-> k] :
        s \in 0..MaxStart, e \in {None} \cup 0..DatasetLen,
        b \in 1..MaxBatchSize, k \in BOOLEAN}

Init ==
    /\ args \in {a \in RunArgs : a.end = None \/ a.start <= a.end}
    /\ \E h \in Hosts : num_cpus = h[1] /\ num_gpus = h[2]
    /\ dataset \in RunDatasets
    /\ pc = "loop"
    /\ batch_start = args.start
    /\ batch_end = 0
    /\ batch_ds = <<>>
    /\ tasks = <<>>
    /\ wada_snr_results = <<>>
    /\ mos_results = <<>>
    /\ all_results = <<>>
    /\ data_dir \in {EmptyDir, StaleDir}
    /\ wav_dir = <<>>
    /\ handed = <<>>
    /\ completed = {}
    /\ data_partitions = <<>>
    /\ echo_results = <<>>
    /\ lookup_v3 = NaN
    /\ lookup_wav_snr = NaN

Next ==
    \/ StartBatch
    \/ EndLoop
    \/ \E t \in DOMAIN tasks : WorkerStart(t)
    \/ \E t \in DOMAIN tasks : WorkerFinish(t)
    \/ SnrFanIn
    \/ MosFanIn
    \/ WhisperFanIn
    \/ StageAbort
    \/ WriteManifest
    \/ WriteManifestFail
    \/ WriteJson
    \/ WriteJsonFail
    \/ Merge

Spec == Init /\ [][Next]_vars

\* ------------------------------------------------- one batch, stage by stage
\* process_results on one batch of arbitrary records, each stage taken as the
\* function of its input that its fan-out and fan-in compute.
InitBatch ==
    /\ dataset \in UNION {Datasets(n, Kinds) : n \in 0..MaxLen}
    /\ args \in {[start |-> 0, end |-> None, batch_size |-> MaxLen + 1, skip_whisper |-> k] :
                    k \in BOOLEAN}
    /\ \E w \in 1..MaxWorkers : num_cpus = w /\ num_gpus = w
    /\ pc = "batch_snr"
    /\ batch_start = 0
    /\ batch_end = Len(dataset)
    /\ batch_ds = dataset
    /\ tasks = <<>>
    /\ wada_snr_results = <<>>
    /\ mos_results = <<>>
    /\ all_results = <<>>
    /\ data_dir = EmptyDir
    /\ wav_dir = <<>>
    /\ handed = <<<<0, Len(dataset)>>>>
    /\ completed = {}
    /\ data_partitions = <<>>
    /\ echo_results = <<>>
    /\ lookup_v3 = NaN
    /\ lookup_wav_snr = NaN

BatchSnr ==
    /\ pc = "batch_snr"
    /\ LET r == SnrStage(batch_ds)
       IN  /\ wada_snr_results' = r.results
           /\ pc' = IF r.raised THEN "aborted" ELSE "batch_mos"
    /\ UNCHANGED <<args, num_cpus, num_gpus, dataset, batch_start, batch_end, batch_ds,
                   tasks, mos_results, all_results, data_dir, wav_dir, handed, completed,
                   data_partitions, echo_results, lookup_v3, lookup_wav_snr>>

BatchMos ==
    /\ pc = "batch_mos"
    /\ mos_results' = MosStage(wada_snr_results).results
    /\ pc' = "batch_whisper"
    /\ UNCHANGED <<args, num_cpus, num_gpus, dataset, batch_start, batch_end, batch_ds,
                   tasks, wada_snr_results, all_results, data_dir, wav_dir, handed,
                   completed, data_partitions, echo_results, lookup_v3, lookup_wav_snr>>

BatchWhisper ==
    /\ pc = "batch_whisper"
    /\ LET r == WhisperStage(mos_results)
       IN  /\ all_results' = r.results
           /\ pc' = IF r.raised THEN "aborted" ELSE "batch_write"
    /\ UNCHANGED <<args, num_cpus, num_gpus, dataset, batch_start, batch_end, batch_ds,
                   tasks, wada_snr_results, mos_results, data_dir, wav_dir, handed,
                   completed, data_partitions, echo_results, lookup_v3, lookup_wav_snr>>

BatchWrite ==
    /\ pc = "batch_write"
    /\ data_dir' = Put(Put(data_dir, EsdName(batch_start, batch_end),
                           ManifestLines(all_results)),
                       ResultsName(batch_start, batch_end), all_results)
    /\ wav_dir' = CopyAll(wav_dir, all_results)
    /\ completed' = completed \cup {Batch}
    /\ pc' = "batch_done"
    /\ UNCHANGED <<args, num_cpus, num_gpus, dataset, batch_start, batch_end, batch_ds,
                   tasks, wada_snr_results, mos_results, all_results, handed,
                   data_partitions, echo_results, lookup_v3, lookup_wav_snr>>

NextBatch == BatchSnr \/ BatchMos \/ BatchWhisper \/ BatchWrite

SpecBatch == InitBatch /\ [][NextBatch]_vars

\* ------------------------------------------------- one stage, any collection
\* What the quality stage can be given for one record: any SNR, defined or
\* not, and any outcome of the preprocessing and of the quality model.
StageKinds ==
    {Kind(ArrayClean, s, Whisper(FALSE)) :
        s \in {ScoreError, Score(score_threshold - 1), Score(score_threshold),
               Score(score_threshold + 1)}}
    \cup {Kind(ArrayMalformed, Score(score_threshold), Whisper(FALSE))}

StageInputs ==
    UNION {{[i \in 1..n |-> <<Item(i - 1, c[i][1]), c[i][2]>>] :
                c \in [1..n -> StageKinds \X {NaN, Float(snr_threshold)}]} :
           n \in 0..MaxLen}

InitStage ==
    /\ wada_snr_results \in StageInputs
    /\ num_gpus \in 1..MaxWorkers
    /\ num_cpus = num_gpus
    /\ args = [start |-> 0, end |-> None, batch_size |-> 1, skip_whisper |-> FALSE]
    /\ dataset = <<>>
    /\ pc = "stage"
    /\ batch_start = 0
    /\ batch_end = 0
    /\ batch_ds = <<>>
    /\ tasks = <<>>
    /\ mos_results = <<>>
    /\ all_results = <<>>
    /\ data_dir = EmptyDir
    /\ wav_dir = <<>>
    /\ handed = <<>>
    /\ completed = {}
    /\ data_partitions = <<>>
    /\ echo_results = <<>>
    /\ lookup_v3 = NaN
    /\ lookup_wav_snr = NaN

\* The stage runner with a worker function that returns its partition.
StageEcho ==
    /\ pc = "stage"
    /\ data_partitions' = array_split(wada_snr_results, num_gpus)
    /\ echo_results' = FanIn([w \in 1..num_gpus |-> Returned(data_partitions'[w])]).results
    /\ pc' = "stage_mos"
    /\ UNCHANGED <<args, num_cpus, num_gpus, dataset, batch_start, batch_end, batch_ds,
                   tasks, wada_snr_results, mos_results, all_results, data_dir, wav_dir,
                   handed, completed, lookup_v3, lookup_wav_snr>>

\* The stage runner with analyze_mos.
StageMos ==
    /\ pc = "stage_mos"
    /\ mos_results' = MosStage(wada_snr_results).results
    /\ pc' = "stage_done"
    /\ UNCHANGED <<args, num_cpus, num_gpus, dataset, batch_start, batch_end, batch_ds,
                   tasks, wada_snr_results, all_results, data_dir, wav_dir, handed,
                   completed, data_partitions, echo_results, lookup_v3, lookup_wav_snr>>

NextStage == StageEcho \/ StageMos

SpecStage == InitStage /\ [][NextStage]_vars

\* ------------------------------------------------------- the table lookup
V3Inputs ==
    {NaN} \cup {Float(x) : x \in {0} \cup
                   {g_vals[i] + d : i \in 1..Len(g_vals), d \in (-V3Delta)..V3Delta}}

InitTable ==
    /\ lookup_v3 \in V3Inputs
    /\ lookup_wav_snr = NaN
    /\ pc = "table"
    /\ args = [start |-> 0, end |-> None, batch_size |-> 1, skip_whisper |-> FALSE]
    /\ num_cpus = 1
    /\ num_gpus = 1
    /\ dataset = <<>>
    /\ batch_start = 0
    /\ batch_end = 0
    /\ batch_ds = <<>>
    /\ tasks = <<>>
    /\ wada_snr_results = <<>>
    /\ mos_results = <<>>
    /\ all_results = <<>>
    /\ data_dir = EmptyDir
    /\ wav_dir = <<>>
    /\ handed = <<>>
    /\ completed = {}
    /\ data_partitions = <<>>
    /\ echo_results = <<>>

\* Lines 96-108 of wada_snr.
TableLookup ==
    /\ pc = "table"
    /\ lookup_wav_snr' = table_lookup(lookup_v3)
    /\ pc' = "table_done"
    /\ UNCHANGED <<args, num_cpus, num_gpus, dataset, batch_start, batch_end, batch_ds,
                   tasks, wada_snr_results, mos_results, all_results, data_dir, wav_dir,
                   handed, completed, data_partitions, echo_results, lookup_v3>>

NextTable == TableLookup

SpecTable == InitTable /\ [][NextTable]_vars

\* ================================================================== claims
Range(s) == {s[i] : i \in DOMAIN s}

Count(x, s) == Cardinality({i \in DOMAIN s : s[i] = x})

\* ---------------------------------------------------------------------- C1
\* The indices of the dataset the command line asks for.
Requested ==
    {i \in 0..(Len(dataset) - 1) : i >= args.start /\ (args.end = None \/ i < args.end)}

\* The indices of the dataset loaded for the batch handed over as h.
LoadedBy(h) == {i \in 0..(Len(dataset) - 1) : h[1] <= i /\ i < h[2]}

\* C1: once the batch loop has ended, the sub-ranges handed to
\* process_results are contiguous and pairwise non-overlapping and cover
\* every index of the requested range exactly once; a non-empty requested
\* range yields at least one batch.
C1_BatchesCoverRange ==
    pc \in {"merge", "done"} =>
        /\ \A i \in Requested :
              Cardinality({k \in DOMAIN handed : i \in LoadedBy(handed[k])}) = 1
        /\ \A k \in DOMAIN handed : LoadedBy(handed[k]) \subseteq Requested
        /\ \A k \in DOMAIN handed : k > 1 => handed[k][1] = handed[k - 1][2]
        /\ Requested # {} => handed # <<>>

\* ---------------------------------------------------------------------- C2
RECURSIVE CountIn(_, _)
CountIn(x, files) ==
    IF files = {} THEN 0
    ELSE LET n == CHOOSE n \in files : TRUE
         IN  Count(x, data_dir[n]) + CountIn(x, files \ {n})

RECURSIVE TotalLen(_)
TotalLen(files) ==
    IF files = {} THEN 0
    ELSE LET n == CHOOSE n \in files : TRUE
         IN  Len(data_dir[n]) + TotalLen(files \ {n})

\* esd.list is the concatenation of the given files: whole files one after
\* the other, so that its line count is the sum of theirs and every line
\* occurs as often as in them.
MergedIsConcatenationOf(files) ==
    LET merged == data_dir[MergedName]
    IN  /\ files \subseteq DOMAIN data_dir
        /\ Len(merged) = TotalLen(files)
        /\ \A x \in Range(merged) \cup UNION {Range(data_dir[n]) : n \in files} :
              Count(x, merged) = CountIn(x, files)
        /\ \E order \in Orders(files) :
              merged = Flatten([i \in DOMAIN order |-> data_dir[order[i]]])

\* The per-batch manifests this run has written.
ThisRunManifests == {EsdName(handed[k][1], handed[k][2]) : k \in DOMAIN handed}

\* The per-batch manifests there are in data_dir, of this run or not.
AllBatchManifests == {n \in DOMAIN data_dir : n[1] = "esd_"}

\* C2 as stated: after all batches, esd.list is the concatenation of the
\* per-batch manifests of this run, and holds no other line.
C2_MergedIsThisRun == pc = "done" => MergedIsConcatenationOf(ThisRunManifests)

\* C2 amended: after all batches, esd.list is the concatenation, in the order
\* glob lists them, of every per-batch manifest esd_*.list that data_dir
\* holds, those left by earlier runs included; esd.list itself is not among them.
C2_MergedIsAllManifests == pc = "done" => MergedIsConcatenationOf(AllBatchManifests)

C2_Witness ==
    /\ pc = "done"
    /\ Cardinality(ThisRunManifests) >= 2
    /\ \A n \in ThisRunManifests : data_dir[n] # <<>>
    /\ EsdName(98, 99) \in DOMAIN data_dir
    /\ Len(data_dir[MergedName]) >= 3

\* ---------------------------------------------------------------------- C3
StageOrder(stage) == IF stage = "snr" THEN 1 ELSE IF stage = "mos" THEN 2 ELSE 3

\* Task u is of an earlier batch than task t, or of an earlier stage of its batch.
Before(u, t) == u[1] < t[1] \/ (u[1] = t[1] /\ StageOrder(u[2]) < StageOrder(t[2]))

\* C3: the running workers all belong to the stage the driving process waits
\* for; every worker of an earlier stage or batch has completed, and every
\* earlier batch has written its manifest and its JSON file.
C3_OneStageAtATime ==
    \A t \in DOMAIN tasks :
        tasks[t].status = "running" =>
            /\ t[1] = Batch /\ t[2] = pc
            /\ \A u \in DOMAIN tasks : tasks[u].status = "running" => u[1] = t[1] /\ u[2] = t[2]
            /\ \A u \in DOMAIN tasks : Before(u, t) => tasks[u].status = "done"
            /\ \A k \in 1..(t[1] - 1) :
                  /\ k \in completed
                  /\ EsdName(handed[k][1], handed[k][2]) \in DOMAIN data_dir
                  /\ ResultsName(handed[k][1], handed[k][2]) \in DOMAIN data_dir

C3_Witness ==
    /\ Batch = 2
    /\ pc = "whisper"
    /\ Cardinality({t \in DOMAIN tasks : tasks[t].status = "running"}) = 2

\* ---------------------------------------------------------------------- C7
\* An exception is on its way out of the run.
ErrorRaised == pc = "aborted" \/ \E t \in DOMAIN tasks : tasks[t].status = "failed"

\* The files of the batches whose process_results returned are as they were.
CompletedFilesKept ==
    \A k \in completed :
        LET esd == EsdName(handed[k][1], handed[k][2])
            json == ResultsName(handed[k][1], handed[k][2])
        IN  /\ esd \in DOMAIN data_dir' /\ data_dir'[esd] = data_dir[esd]
            /\ json \in DOMAIN data_dir' /\ data_dir'[json] = data_dir[json]
            /\ \A i \in DOMAIN data_dir[json] :
                  LET wav == <<data_dir[json][i].uuid, ".wav">>
                  IN  wav \in DOMAIN wav_dir' /\ wav_dir'[wav] = wav_dir[wav]

\* C7: once a worker of the SNR or transcription stage has raised, the run
\* only waits for the stage's running workers and then ends: no batch is
\* started, nothing is written and esd.list is not written; a run ended by a
\* stage error or by an I/O error takes no further step, and the step that
\* ends it leaves the files of every completed batch as they were.
C7_ErrorEndsRun ==
    [][ /\ ErrorRaised =>
              /\ pc' \in {pc, "aborted"}
              /\ handed' = handed
              /\ data_dir' = data_dir
              /\ wav_dir' = wav_dir
        /\ pc = "aborted" => pc' = "aborted"
        /\ pc' = "aborted" => CompletedFilesKept ]_vars

C7_Witness ==
    /\ pc = "aborted"
    /\ completed # {}
    /\ \E t \in DOMAIN tasks : tasks[t].status = "failed" /\ t[1] = 2 /\ t[2] = "whisper"
    /\ MergedName \notin DOMAIN data_dir

\* ---------------------------------------------------------------------- C5
\* The SNR of the i-th record of the batch.
SnrOf(i) == wada_snr(preprocess_audio(batch_ds[i].audio.array))

\* The SNR is defined and at least the threshold.
SnrPasses(snr) == ~isnan(snr) /\ ~FloatLt(snr, Float(snr_threshold))

\* C5: the output of the SNR stage holds no record whose SNR is undefined or
\* below the threshold, holds exactly once, with its SNR, every record whose
\* SNR is defined and at least the threshold, and is a sub-collection of the
\* input in the input's order.
C5_SnrStageFilters ==
    pc = "batch_mos" =>
        LET snr == [i \in DOMAIN batch_ds |-> SnrOf(i)]
        IN  /\ \A j \in DOMAIN wada_snr_results : SnrPasses(wada_snr_results[j][2])
            /\ \A i \in DOMAIN batch_ds :
                  SnrPasses(snr[i]) =>
                      Count(<<batch_ds[i], snr[i]>>, wada_snr_results) = 1
            /\ \A j \in DOMAIN wada_snr_results :
                  \E i \in DOMAIN batch_ds : wada_snr_results[j] = <<batch_ds[i], snr[i]>>
            /\ \A j1, j2 \in DOMAIN wada_snr_results :
                  j1 < j2 => wada_snr_results[j1][1].id < wada_snr_results[j2][1].id
            /\ Len(wada_snr_results) <= Len(batch_ds)

C5_Witness ==
    /\ pc = "batch_mos"
    /\ num_cpus = 2
    /\ Len(batch_ds) = 3
    /\ batch_ds[1].audio.array = ArraySilent
    /\ batch_ds[2].audio.array = ArrayClean
    /\ batch_ds[3].audio.array = ArrayNoisy
    /\ Len(wada_snr_results) = 1

\* ---------------------------------------------------------------------- C9
\* The records of the batch the SNR stage drops (k of them).
SnrDropped == {i \in DOMAIN batch_ds : ~SnrPasses(SnrOf(i))}

\* The records among `left` whose score is below the threshold (m of them).
ScoredBelow(left) ==
    {i \in left : ~mos_raises(batch_ds[i]) /\ predictor(batch_ds[i]).val < score_threshold}

\* The records among `left` whose scoring raises (e of them).
ScoringRaised(left) == {i \in left : mos_raises(batch_ds[i])}

\* What C9 says of the outputs of a completed batch besides their number.
BatchOutputsAgree ==
    LET esd == EsdName(batch_start, batch_end)
        json == ResultsName(batch_start, batch_end)
    IN  /\ \A j \in DOMAIN all_results :
              \E i \in DOMAIN batch_ds :
                  /\ all_results[j].id = batch_ds[i].id
                  /\ all_results[j].uuid = batch_ds[i].utt_id
        /\ \A j1, j2 \in DOMAIN all_results :
              j1 # j2 => all_results[j1].id # all_results[j2].id
        /\ Len(data_dir[esd]) = Len(all_results)
        /\ \A j \in DOMAIN all_results :
              data_dir[esd][j] = <<all_results[j].uuid, ".wav", "yodasja", "JP",
                                   all_results[j].transcription>>
        /\ data_dir[json] = all_results
        /\ DOMAIN wav_dir = {<<all_results[j].uuid, ".wav">> : j \in DOMAIN all_results}
        /\ Cardinality(DOMAIN wav_dir) = Len(all_results)
        /\ args.skip_whisper =>
              \A j \in DOMAIN all_results :
                  all_results[j].transcription = all_results[j].source_transcription

\* C9 as stated: a completed batch of n records, k of them dropped for their
\* SNR and m of the others scoring below the threshold, has n-k-m results.
C9_ResultCount ==
    pc = "batch_done" =>
        LET k == Cardinality(SnrDropped)
            m == Cardinality(ScoredBelow(DOMAIN batch_ds \ SnrDropped))
        IN  /\ Len(all_results) = Len(batch_ds) - k - m
            /\ BatchOutputsAgree

\* C9 amended: with e more of the others dropped because their scoring
\* raised, the batch has n-k-m-e results, each with the id and uuid of a
\* distinct input record; the manifest has one entry per result in result
\* order, the JSON file holds the same results, one audio file is copied per
\* result, and with --skip_whisper every transcription is the source's.
C9_ResultCountWithErrors ==
    pc = "batch_done" =>
        LET k == Cardinality(SnrDropped)
            m == Cardinality(ScoredBelow(DOMAIN batch_ds \ SnrDropped))
            e == Cardinality(ScoringRaised(DOMAIN batch_ds \ SnrDropped))
        IN  /\ Len(all_results) = Len(batch_ds) - k - m - e
            /\ BatchOutputsAgree

C9_Witness ==
    /\ pc = "batch_done"
    /\ args.skip_whisper
    /\ Len(batch_ds) = 3
    /\ Cardinality(SnrDropped) = 1
    /\ Cardinality(ScoringRaised(DOMAIN batch_ds \ SnrDropped)) = 1
    /\ Len(all_results) = 1
    /\ ~batch_ds[3].whisper.same
    /\ all_results[1].id = batch_ds[3].id

\* ---------------------------------------------------------------------- C4
\* C4: the output of the quality stage holds no record whose score is below
\* the threshold; it holds exactly once, with its own SNR and score, every
\* input record whose SNR is defined and whose scoring gives, without an
\* error, a score of at least the threshold; and it holds nothing else than
\* input records with their own SNR and score.
C4_QualityStageFilters ==
    pc = "stage_done" =>
        /\ \A j \in DOMAIN mos_results : ~(mos_results[j][3] < score_threshold)
        /\ \A i \in DOMAIN wada_snr_results :
              LET item == wada_snr_results[i][1]
                  snr == wada_snr_results[i][2]
              IN  (~isnan(snr) /\ ~mos_raises(item)
                       /\ predictor(item).val >= score_threshold) =>
                      Count(<<item, snr, predictor(item).val>>, mos_results) = 1
        /\ \A j \in DOMAIN mos_results :
              \E i \in DOMAIN wada_snr_results :
                  mos_results[j] = <<wada_snr_results[i][1], wada_snr_results[i][2],
                                     predictor(wada_snr_results[i][1]).val>>

C4_Witness ==
    /\ pc = "stage_done"
    /\ num_gpus = 2
    /\ Len(wada_snr_results) = 3
    /\ isnan(wada_snr_results[1][2])
    /\ ~isnan(wada_snr_results[2][2]) /\ ~isnan(wada_snr_results[3][2])
    /\ predictor(wada_snr_results[2][1]) = Score(score_threshold - 1)
    /\ predictor(wada_snr_results[3][1]) = Score(score_threshold)
    /\ wada_snr_results[3][1].audio.array.valid
    /\ Len(mos_results) = 1

\* ---------------------------------------------------------------------- C6
RECURSIVE LenUpTo(_, _)
\* The number of items of the first k partitions.
LenUpTo(partitions, k) ==
    IF k = 0 THEN 0 ELSE LenUpTo(partitions, k - 1) + Len(partitions[k])

\* C6: the stage runner splits its input into W partitions, the j-th item of
\* partition w being the item of the input that follows the items of the
\* partitions before w, so that the partitions one after the other are the
\* input; with a worker function that returns its partition the output of
\* the stage is the input.
C6_PartitionsRebuildInput ==
    pc \in {"stage_mos", "stage_done"} =>
        /\ DOMAIN data_partitions = 1..num_gpus
        /\ LenUpTo(data_partitions, num_gpus) = Len(wada_snr_results)
        /\ \A w \in 1..num_gpus :
              \A j \in 1..Len(data_partitions[w]) :
                  data_partitions[w][j] =
                      wada_snr_results[LenUpTo(data_partitions, w - 1) + j]
        /\ echo_results = wada_snr_results

C6_Witness ==
    /\ pc = "stage_mos"
    /\ num_gpus = 2
    /\ Len(wada_snr_results) = 3
    /\ Len(data_partitions[1]) = 2
    /\ Len(data_partitions[2]) = 1
    /\ Len(echo_results) = 3

\* ---------------------------------------------------------------------- C8
NotRaising(r) == ~mos_raises(r[1])

\* C8: the output of the quality stage is the output it has for the input
\* without the records whose scoring raises.
C8_ScoringErrorDropsOneRecord ==
    pc = "stage_done" =>
        mos_results = MosStage(SelectSeq(wada_snr_results, NotRaising)).results

C8_Witness ==
    /\ pc = "stage_done"
    /\ num_gpus = 2
    /\ Len(wada_snr_results) = 3
    /\ \A i \in 1..3 : ~isnan(wada_snr_results[i][2])
    /\ predictor(wada_snr_results[1][1]).err
    /\ Len(mos_results) = 2
    /\ mos_results[1][1].id = wada_snr_results[2][1].id

\* --------------------------------------------------------------------- C10
\* The indices whose curve value is less than the statistic.
IndicesBelow == {i \in 1..Len(g_vals) : g_vals[i] < lookup_v3.num /\ ~lookup_v3.nan}

\* C10: the lookup gives -20 when no curve value is less than the statistic,
\* 100 when the largest index whose curve value is less is the last one, and
\* otherwise the linear interpolation between that index i and i+1, which is
\* between db[i] and db[i+1]; every result is between -20 and 100.
C10_LookupWithinTable ==
    pc = "table_done" =>
        LET r == lookup_wav_snr
            i == Max(IndicesBelow)
        IN  /\ ~r.nan /\ r.den > 0
            /\ -20 * r.den <= r.num /\ r.num <= 100 * r.den
            /\ IndicesBelow = {} => r.num = -20 * r.den
            /\ (IndicesBelow # {} /\ i = 121) => r.num = 100 * r.den
            /\ (IndicesBelow # {} /\ i < 121) =>
                  /\ r.den = g_vals[i + 1] - g_vals[i]
                  /\ r.num - db_vals[i] * r.den
                        = (lookup_v3.num - g_vals[i]) * (db_vals[i + 1] - db_vals[i])
                  /\ db_vals[i] * r.den <= r.num
                  /\ r.num <= db_vals[i + 1] * r.den

\* The statistic lies where the curve is not monotonic: a curve value before
\* the largest index is not less than it.
C10_Witness ==
    /\ pc = "table_done"
    /\ IndicesBelow # {}
    /\ Max(IndicesBelow) < 121
    /\ \E j \in 1..Max(IndicesBelow) : j \notin IndicesBelow
    /\ lookup_wav_snr.num > db_vals[Max(IndicesBelow)] * lookup_wav_snr.den
====
